---------------------------- MODULE Spec2Model ----------------------------
(***************************************************************************)
(* Frame-stepped model of crates/test1/src/main.rs: a player entity that   *)
(* accelerates under keyboard input, aims at the pointer and fires         *)
(* short-lived projectiles.                                                *)
(*                                                                         *)
(* Units.  Simulation time is counted in ticks of 1/TicksPerSecond s.      *)
(* Velocities are in world units per second, positions in                  *)
(* 1/TicksPerSecond world units, so that  position += velocity * dt  is    *)
(* exact.  Vectors carry a nan flag: glam's normalize() and angle_between()*)
(* of a zero vector divide 0 by 0.  An angle is kept as the primitive      *)
(* integer vector that points along it.                                    *)
(***************************************************************************)
EXTENDS Integers, Sequences, FiniteSets, TLC

TicksPerSecond == 5 * 10

\* Bounds of the environment.
MaxFrames == 3
MaxInputs == 2
MaxEventsPerFrame == 2
FireFrames == 6
FireInputs == 6

\* Program constants.
Accel == 5000
MaxSpeed == 500
ProjectileSpeed == 2000
SpawnOffset == 50
ScreenCenterX == 640
ScreenCenterY == 400
\* 0.1 s (fire cooldown, friction quiescence) and 0.5 s (lifespan) in ticks
CooldownTicks == TicksPerSecond \div 10
QuiescenceTicksNone == TicksPerSecond \div 100
QuiescenceTicks == TicksPerSecond \div 10
LifespanTicks == TicksPerSecond \div 2

VARIABLES
  pc,            \* the system that runs next in the frame, "tick" between frames
  now,           \* time.seconds_since_startup, in ticks
  dt,            \* time.delta_seconds, in ticks
  keys,          \* the keys held down
  cursorEvents,  \* Events<CursorMoved> of the frame
  buttonEvents,  \* Events<MouseButtonInput> of the frame
  cursorPrev,    \* Events<CursorMoved> of the frame before, still in the buffer
  buttonPrev,    \* Events<MouseButtonInput> of the frame before
  mouseReader,   \* mouse_system's EventReader: how many buffered events it has read
  fireReader,    \* fire_system's EventReader
  ents,          \* the world: entity id -> components
  nextId,        \* the next entity id
  commands,      \* the command buffer of the stage
  frame,         \* frames begun
  inputBudget,   \* inputs the host may still deliver
  lastTrigger,   \* history: time of the last earlier frame with a button event, -1 if none
  env            \* what the host of this run may do; never changes

vars == <<pc, now, dt, keys, cursorEvents, buttonEvents, cursorPrev, buttonPrev,
          mouseReader, fireReader, ents, nextId, commands, frame, inputBudget,
          lastTrigger, env>>

---------------------------------------------------------------------------
\* Vectors (glam Vec2 / the x,y part of Vec3)

V(x, y) == [x |-> x, y |-> y, nan |-> FALSE]
NaNVec == [x |-> 0, y |-> 0, nan |-> TRUE]
Zero == V(0, 0)

Abs(a) == IF a < 0 THEN -a ELSE a
Max(a, b) == IF a < b THEN b ELSE a
Sign(a) == IF a < 0 THEN -1 ELSE IF a > 0 THEN 1 ELSE 0
TruncDiv(a, b) == Sign(a) * (Abs(a) \div b)

RECURSIVE SqrtSearch(_, _, _)
SqrtSearch(n, lo, hi) ==
  IF hi - lo <= 1 THEN lo
  ELSE LET mid == (lo + hi) \div 2
       IN IF mid * mid <= n THEN SqrtSearch(n, mid, hi) ELSE SqrtSearch(n, lo, mid)

FloorSqrt(n) == SqrtSearch(n, 0, 46341)
CeilSqrt(n) == LET r == FloorSqrt(n) IN IF r * r = n THEN r ELSE r + 1

RECURSIVE Gcd(_, _)
Gcd(a, b) == IF b = 0 THEN a ELSE Gcd(b, a % b)

Length2(v) == v.x * v.x + v.y * v.y

\* Vec3::length() > 0.0 ; a NaN length compares false
LengthPositive(v) == ~v.nan /\ (v.x # 0 \/ v.y # 0)

VAdd(a, b) == IF a.nan \/ b.nan THEN NaNVec ELSE V(a.x + b.x, a.y + b.y)
VSub(a, b) == IF a.nan \/ b.nan THEN NaNVec ELSE V(a.x - b.x, a.y - b.y)
VScale(a, k) == IF a.nan THEN NaNVec ELSE V(a.x * k, a.y * k)

\* v brought to a size at which its squared length fits and keeps four digits
Rescaled(v) ==
  LET m == Max(Abs(v.x), Abs(v.y))
  IN IF m < 10000 THEN VScale(v, 20000 \div m)
     ELSE IF m > 20000 THEN V(TruncDiv(v.x, (m \div 20000) + 1), TruncDiv(v.y, (m \div 20000) + 1))
     ELSE v

\* v.normalize() * k : each component k*x/|v| cut toward zero on the grid, so
\* that the result is never longer than k ; 0/0 for the zero vector
NormalizeTimes(v, k) ==
  IF v.nan \/ (v.x = 0 /\ v.y = 0) THEN NaNVec
  ELSE LET s == Rescaled(v)
           len == CeilSqrt(Length2(s))
       IN V(TruncDiv(s.x * k, len), TruncDiv(s.y * k, len))

\* magnitude *= 0.7 : an f32 product rounds to the nearest value, so the
\* least nonzero component is its own image
MulRound(a, num, den) == Sign(a) * ((Abs(a) * num + den \div 2) \div den)
DecayStop(v) == IF v.nan THEN NaNVec ELSE Zero

Decay(v) == IF v.nan THEN NaNVec ELSE V(MulRound(v.x, 7, 10), MulRound(v.y, 7, 10))

---------------------------------------------------------------------------
\* Angles, kept as the primitive vector pointing along the angle

Ray(x, y) == LET g == Gcd(Abs(x), Abs(y)) IN V(x \div g, y \div g)

\* Vec2::angle_between(v, (1,0)) : the signed angle from v to the x axis,
\* acos(0/0) for the zero vector
AngleBetweenX(v) == IF v.nan \/ (v.x = 0 /\ v.y = 0) THEN NaNVec ELSE Ray(v.x, -v.y)
NegAngle(a) == IF a.nan THEN NaNVec ELSE V(a.x, -a.y)
\* a - PI / 2
SubQuarterTurn(a) == IF a.nan THEN NaNVec ELSE V(a.y, -a.x)
AngleZero == V(1, 0)

---------------------------------------------------------------------------
\* Components and entities

Components == {"Transform", "Velocity", "Shooter", "Lifespan"}

Blank ==
  [comps |-> {}, translation |-> Zero, rotation |-> AngleZero,
   magnitude |-> Zero, last_change |-> 0, no_friction |-> FALSE,
   shoot_direction |-> Zero, shoot_angle |-> AngleZero, last_shot_at |-> 0,
   kill_at |-> 0]

Camera == [Blank EXCEPT !.comps = {"Transform"}]

Player == [Blank EXCEPT !.comps = {"Transform", "Velocity", "Shooter"}]

Projectile(transl, rot, vel, killAt) ==
  [Blank EXCEPT !.comps = {"Transform", "Velocity", "Lifespan"},
                !.translation = transl, !.rotation = rot,
                !.magnitude = vel, !.last_change = 0, !.no_friction = TRUE,
                !.kill_at = killAt]

Has(e, cs) == cs \subseteq e.comps
Matching(cs) == {i \in DOMAIN ents : Has(ents[i], cs)}

RECURSIVE SortedSeq(_)
SortedSeq(S) ==
  IF S = {} THEN <<>>
  ELSE LET m == CHOOSE a \in S : \A b \in S : a <= b
       IN <<m>> \o SortedSeq(S \ {m})

---------------------------------------------------------------------------
\* Inputs of one frame

SeqsUpTo(S, n) == UNION {[1..k -> S] : k \in 0..n}

\* frame lengths in ticks: none, one tick, the cooldown exactly, just over it,
\* one tick short of a lifespan
DtChoices == {0, 1, CooldownTicks, CooldownTicks + 1, LifespanTicks - 1}
KeyChoices == {{}, {"W"}, {"A", "D"}, {"D", "S"}}
PointerChoices == {V(ScreenCenterX, ScreenCenterY), V(ScreenCenterX - 30, ScreenCenterY + 40)}
ButtonChoices == {[button |-> "Left", state |-> "Pressed"],
                  [button |-> "Left", state |-> "Released"],
                  [button |-> "Right", state |-> "Pressed"]}

---------------------------------------------------------------------------
\* setup

\* The state after setup, with the world w and the host h.
Setup(w, h) ==
  /\ pc = "tick"
  /\ now = 0
  /\ dt = 0
  /\ keys = {}
  /\ cursorEvents = <<>>
  /\ buttonEvents = <<>>
  /\ cursorPrev = <<>>
  /\ buttonPrev = <<>>
  /\ ents = w
  /\ nextId = 3
  /\ commands = <<>>
  /\ mouseReader = 0
  /\ fireReader = 0
  /\ frame = 0
  /\ inputBudget = h.inputs
  /\ lastTrigger = -1
  /\ env = h

\* A host: the frames it runs, the inputs it delivers in all, the kinds of
\* input it delivers, the frame times it takes, and whether the events of a
\* frame are kept in the buffer through the next frame (as Events' two
\* buffers do) or dropped at the end of their frame, when both readers have
\* read them.
Host(frames, inputs, kinds, dts, retain) ==
  [frames |-> frames, inputs |-> inputs, kinds |-> kinds, dts |-> dts, retain |-> retain]

AllKinds == {"keys", "cursor", "button"}

Init == Setup((1 :> Camera) @@ (2 :> Player), Host(MaxFrames, MaxInputs, AllKinds, DtChoices, FALSE))

\* The host's part of a frame: the clock advances, the keyboard state and the
\* events of the frame are delivered.
InputCost(k, ce, be) == (IF k = {} THEN 0 ELSE 1) + Len(ce) + Len(be)

\* The systems of the update stage as a frame runs them.  The alternative
\* below runs the aim and fire systems ahead of the movement.
SystemOrderAimFireFirst == <<"input", "mouse", "fire", "velocity", "friction", "kill">>

SystemOrder == <<"input", "velocity", "friction", "mouse", "fire", "kill">>

\* What runs after system p: the next system, or the stage's end.
After(p) ==
  LET n == CHOOSE j \in DOMAIN SystemOrder : SystemOrder[j] = p
  IN IF n < Len(SystemOrder) THEN SystemOrder[n + 1] ELSE "apply"

InputKinds(k, ce, be) ==
  (IF k = {} THEN {} ELSE {"keys"}) \cup (IF ce = <<>> THEN {} ELSE {"cursor"})
    \cup (IF be = <<>> THEN {} ELSE {"button"})

\* Events::update drops the events of the frame before the last one; the
\* readers count on from the events that stay.
BeginFrame ==
  /\ pc = "tick"
  /\ frame < env.frames
  /\ \E d \in env.dts, k \in KeyChoices,
        ce \in SeqsUpTo(PointerChoices, MaxEventsPerFrame),
        be \in SeqsUpTo(ButtonChoices, MaxEventsPerFrame) :
       /\ InputCost(k, ce, be) <= inputBudget
       /\ InputKinds(k, ce, be) \subseteq env.kinds
       /\ now' = now + d
       /\ dt' = d
       /\ keys' = k
       /\ cursorEvents' = ce
       /\ buttonEvents' = be
       /\ inputBudget' = inputBudget - InputCost(k, ce, be)
  /\ cursorPrev' = cursorEvents
  /\ buttonPrev' = buttonEvents
  /\ mouseReader' = mouseReader - Len(cursorPrev)
  /\ fireReader' = fireReader - Len(buttonPrev)
  /\ frame' = frame + 1
  /\ pc' = Head(SystemOrder)
  /\ UNCHANGED <<ents, nextId, commands, lastTrigger, env>>

---------------------------------------------------------------------------
\* input_system

KeyDir(ks, d) ==
  V((IF "D" \in ks THEN d ELSE 0) - (IF "A" \in ks THEN d ELSE 0),
    (IF "W" \in ks THEN d ELSE 0) - (IF "S" \in ks THEN d ELSE 0))

\* accel * time.delta_seconds, in world units per second
AccelStep(d) == (Accel * d) \div TicksPerSecond

Uncapped(v) == v

Capped(v) == IF Length2(v) > MaxSpeed * MaxSpeed THEN NormalizeTimes(v, MaxSpeed) ELSE v

InputEntityStampsAnyKey(e, ks, d, t) ==
  LET dir == KeyDir(ks, d)
      moved == IF LengthPositive(dir)
               THEN [e EXCEPT !.magnitude = Capped(VAdd(e.magnitude, NormalizeTimes(dir, AccelStep(d))))]
               ELSE e
  IN IF ks # {} THEN [moved EXCEPT !.last_change = t] ELSE moved

InputEntity(e, ks, d, t) ==
  LET dir == KeyDir(ks, d)
  IN IF LengthPositive(dir)
     THEN [e EXCEPT !.magnitude = Capped(VAdd(e.magnitude, NormalizeTimes(dir, AccelStep(d)))),
                    !.last_change = t]
     ELSE e

InputSystem ==
  /\ pc = "input"
  /\ ents' = [i \in DOMAIN ents |->
                IF Has(ents[i], {"Velocity", "Shooter"})
                THEN InputEntity(ents[i], keys, dt, now) ELSE ents[i]]
  /\ pc' = After("input")
  /\ UNCHANGED <<now, dt, keys, cursorEvents, buttonEvents, cursorPrev, buttonPrev,
                 mouseReader, fireReader, nextId, commands, frame, inputBudget,
                 lastTrigger, env>>

---------------------------------------------------------------------------
\* velocity_system

MoveEntityXOnly(e, d) ==
  [e EXCEPT !.translation = VAdd(e.translation, V(e.magnitude.x * d, 0))]

MoveEntity(e, d) == [e EXCEPT !.translation = VAdd(e.translation, VScale(e.magnitude, d))]

VelocitySystem ==
  /\ pc = "velocity"
  /\ ents' = [i \in DOMAIN ents |->
                IF Has(ents[i], {"Velocity", "Transform"})
                THEN MoveEntity(ents[i], dt) ELSE ents[i]]
  /\ pc' = After("velocity")
  /\ UNCHANGED <<now, dt, keys, cursorEvents, buttonEvents, cursorPrev, buttonPrev,
                 mouseReader, fireReader, nextId, commands, frame, inputBudget,
                 lastTrigger, env>>

---------------------------------------------------------------------------
\* friction_system

FrictionEntityAll(e, t) ==
  IF t - e.last_change > QuiescenceTicks /\ LengthPositive(e.magnitude)
  THEN [e EXCEPT !.magnitude = Decay(e.magnitude)]
  ELSE e

FrictionEntity(e, t) ==
  IF t - e.last_change > QuiescenceTicks /\ ~e.no_friction
  THEN IF LengthPositive(e.magnitude)
       THEN [e EXCEPT !.magnitude = Decay(e.magnitude)]
       ELSE e
  ELSE e

FrictionSystem ==
  /\ pc = "friction"
  /\ ents' = [i \in DOMAIN ents |->
                IF Has(ents[i], {"Velocity"})
                THEN FrictionEntity(ents[i], now) ELSE ents[i]]
  /\ pc' = After("friction")
  /\ UNCHANGED <<now, dt, keys, cursorEvents, buttonEvents, cursorPrev, buttonPrev,
                 mouseReader, fireReader, nextId, commands, frame, inputBudget,
                 lastTrigger, env>>

---------------------------------------------------------------------------
\* mouse_system

ViewDir(p, e) ==
  VSub(VScale(VSub(p, V(ScreenCenterX, ScreenCenterY)), TicksPerSecond), e.translation)

AimEntity(e, p) ==
  LET view_dir_vec == ViewDir(p, e)
      angle == AngleBetweenX(view_dir_vec)
  IN [e EXCEPT !.rotation = SubQuarterTurn(NegAngle(angle)),
               !.shoot_direction = view_dir_vec,
               !.shoot_angle = NegAngle(angle)]

RECURSIVE AimAllTransforms(_, _)
AimAllTransforms(es, evs) ==
  IF evs = <<>> THEN es
  ELSE AimAllTransforms([i \in DOMAIN es |->
                           IF Has(es[i], {"Transform"})
                           THEN AimEntity(es[i], Head(evs)) ELSE es[i]],
                        Tail(evs))

RECURSIVE AimAll(_, _)
AimAll(es, evs) ==
  IF evs = <<>> THEN es
  ELSE AimAll([i \in DOMAIN es |->
                 IF Has(es[i], {"Transform", "Velocity", "Shooter"})
                 THEN AimEntity(es[i], Head(evs)) ELSE es[i]],
              Tail(evs))

UnreadAll(evs, n) == evs

\* EventReader::iter : the events the reader has not seen yet
Unread(evs, n) == SubSeq(evs, n + 1, Len(evs))

MouseSystem ==
  /\ pc = "mouse"
  /\ ents' = AimAll(ents, Unread(cursorPrev \o cursorEvents, mouseReader))
  /\ mouseReader' = Len(cursorPrev) + Len(cursorEvents)
  /\ pc' = After("mouse")
  /\ UNCHANGED <<now, dt, keys, cursorEvents, buttonEvents, cursorPrev, buttonPrev,
                 fireReader, nextId, commands, frame, inputBudget, lastTrigger, env>>

---------------------------------------------------------------------------
\* fire_system

Spawn(i, e) == [op |-> "spawn", id |-> i, ent |-> e]
Despawn(i) == [op |-> "despawn", id |-> i, ent |-> Blank]

CanFireAtCooldown(e, t) == t - e.last_shot_at >= CooldownTicks

CanFire(e, t) == t - e.last_shot_at > CooldownTicks

Triggers(ev) == ev.button = "Left"

PewAtShooter(e, t) ==
  Projectile(e.translation,
             e.shoot_angle,
             NormalizeTimes(e.shoot_direction, ProjectileSpeed),
             t + LifespanTicks)

Pew(e, t) ==
  Projectile(VAdd(e.translation, NormalizeTimes(e.shoot_direction, SpawnOffset * TicksPerSecond)),
             e.shoot_angle,
             NormalizeTimes(e.shoot_direction, ProjectileSpeed),
             t + LifespanTicks)

FireOneNoStamp(st, i, t) ==
  IF CanFire(st.es[i], t)
  THEN [es |-> st.es,
        cmds |-> Append(st.cmds, Spawn(st.next, Pew(st.es[i], t))),
        next |-> st.next + 1]
  ELSE st

\* One shooter's turn for one event; st is [es, cmds, next].
FireOne(st, i, t) ==
  IF CanFire(st.es[i], t)
  THEN [es |-> [st.es EXCEPT ![i].last_shot_at = t],
        cmds |-> Append(st.cmds, Spawn(st.next, Pew(st.es[i], t))),
        next |-> st.next + 1]
  ELSE st

RECURSIVE FireShooters(_, _, _)
FireShooters(st, ids, t) ==
  IF ids = <<>> THEN st ELSE FireShooters(FireOne(st, Head(ids), t), Tail(ids), t)

RECURSIVE FireAll(_, _, _)
FireAll(st, evs, t) ==
  IF evs = <<>> THEN st
  ELSE FireAll(IF Triggers(Head(evs))
               THEN FireShooters(st, SortedSeq({i \in DOMAIN st.es : Has(st.es[i], {"Transform", "Shooter"})}), t)
               ELSE st,
               Tail(evs), t)

FireSystem ==
  /\ pc = "fire"
  /\ LET st == FireAll([es |-> ents, cmds |-> commands, next |-> nextId],
                       Unread(buttonPrev \o buttonEvents, fireReader), now)
     IN /\ ents' = st.es
        /\ commands' = st.cmds
        /\ nextId' = st.next
  /\ fireReader' = Len(buttonPrev) + Len(buttonEvents)
  /\ pc' = After("fire")
  /\ UNCHANGED <<now, dt, keys, cursorEvents, buttonEvents, cursorPrev, buttonPrev,
                 mouseReader, frame, inputBudget, lastTrigger, env>>

---------------------------------------------------------------------------
\* kill_system

ExpiredLate(e, t) == t > e.kill_at

Expired(e, t) == t >= e.kill_at

RECURSIVE DespawnAll(_)
DespawnAll(ids) == IF ids = <<>> THEN <<>> ELSE <<Despawn(Head(ids))>> \o DespawnAll(Tail(ids))

KillSystem ==
  /\ pc = "kill"
  /\ commands' = commands \o
       DespawnAll(SortedSeq({i \in Matching({"Lifespan"}) : Expired(ents[i], now)}))
  /\ pc' = After("kill")
  /\ UNCHANGED <<now, dt, keys, cursorEvents, buttonEvents, cursorPrev, buttonPrev,
                 mouseReader, fireReader, ents, nextId, frame, inputBudget,
                 lastTrigger, env>>

---------------------------------------------------------------------------
\* The stage ends: the command buffer is applied.  The frame's dt and key
\* state are not read again (the host replaces them before the next frame's
\* systems run), so they are not kept.  The events stay in the buffer when
\* the host retains them, and are dropped here otherwise.

ApplyOneKeepsDespawned(es, c) ==
  IF c.op = "spawn" THEN (c.id :> c.ent) @@ es
  ELSE es

ApplyOne(es, c) ==
  IF c.op = "spawn" THEN (c.id :> c.ent) @@ es
  ELSE [i \in DOMAIN es \ {c.id} |-> es[i]]

RECURSIVE ApplyAll(_, _)
ApplyAll(es, cs) == IF cs = <<>> THEN es ELSE ApplyAll(ApplyOne(es, Head(cs)), Tail(cs))

ApplyCommands ==
  /\ pc = "apply"
  /\ ents' = ApplyAll(ents, commands)
  /\ commands' = <<>>
  /\ dt' = 0
  /\ keys' = {}
  /\ IF env.retain
     THEN UNCHANGED <<cursorEvents, buttonEvents, cursorPrev, buttonPrev,
                      mouseReader, fireReader>>
     ELSE /\ cursorEvents' = <<>>
          /\ buttonEvents' = <<>>
          /\ cursorPrev' = <<>>
          /\ buttonPrev' = <<>>
          /\ mouseReader' = 0
          /\ fireReader' = 0
  /\ lastTrigger' = IF buttonEvents # <<>> THEN now ELSE lastTrigger
  /\ pc' = "tick"
  /\ UNCHANGED <<now, nextId, frame, inputBudget, env>>

---------------------------------------------------------------------------
Next ==
  \/ BeginFrame
  \/ InputSystem
  \/ VelocitySystem
  \/ FrictionSystem
  \/ MouseSystem
  \/ FireSystem
  \/ KillSystem
  \/ ApplyCommands

Spec == Init /\ [][Next]_vars

\* The same program with a host that delivers events only and keeps each
\* frame's events in the buffer through the next frame.
InitRetained ==
  Setup((1 :> Camera) @@ (2 :> Player),
        Host(MaxFrames, MaxInputs, {"cursor", "button"}, DtChoices, TRUE))

SpecRetained == InitRetained /\ [][Next]_vars

\* The same program from the state a first frame at now = 0 with one
\* CursorMoved event leaves: the player aims down and to the left.
AimedAt == V(ScreenCenterX - 30, ScreenCenterY + 40)

InitAimed ==
  Setup((1 :> Camera) @@ (2 :> AimEntity(Player, AimedAt)),
        Host(MaxFrames, MaxInputs, AllKinds, DtChoices, FALSE))

SpecAimed == InitAimed /\ [][Next]_vars

\* The aiming player with a host that runs more frames, of 0.1 s or 0.12 s,
\* and delivers button events only.
InitFire ==
  Setup((1 :> Camera) @@ (2 :> AimEntity(Player, AimedAt)),
        Host(FireFrames, FireInputs, {"button"}, {CooldownTicks, CooldownTicks + 1}, FALSE))

SpecFire == InitFire /\ [][Next]_vars

---------------------------------------------------------------------------
\* Properties

LeftPressed == [button |-> "Left", state |-> "Pressed"]
Projectiles(es) == {i \in DOMAIN es : Has(es[i], {"Lifespan"})}
Shooters(es) == {i \in DOMAIN es : Has(es[i], {"Shooter"})}
SpawnCommands == {j \in DOMAIN commands : commands[j].op = "spawn"}

\* Every projectile spawned and not yet removed: in the world or requested.
Spawned ==
  {[id |-> i, kill_at |-> ents[i].kill_at] : i \in Projectiles(ents)}
    \cup {[id |-> commands[j].id, kill_at |-> commands[j].ent.kill_at] : j \in SpawnCommands}

\* C1: any two projectile spawns are more than 0.1 s apart (a projectile
\* lives 0.5 s, so two spawns at most 0.1 s apart would both be present);
\* several trigger events in one frame spawn at most one projectile.
C1_SpawnsApart ==
  \A a, b \in Spawned : a.id # b.id => Abs(a.kill_at - b.kill_at) > CooldownTicks

C1_Witness ==
  /\ pc = "kill"
  /\ Cardinality({j \in DOMAIN buttonEvents : Triggers(buttonEvents[j])}) >= 2
  /\ Cardinality(SpawnCommands) = 1

\* C2: a press of the primary trigger more than 0.1 s after the previous
\* button event, the first press of a run included, spawns a projectile.
C2_PressAfterCooldownSpawns ==
  (/\ pc = "kill"
   /\ buttonEvents # <<>>
   /\ Head(buttonEvents) = LeftPressed
   /\ (lastTrigger = -1 \/ now - lastTrigger > CooldownTicks))
  => SpawnCommands # {}

\* C3: a projectile spawned at t0 has kill_at = t0 + 0.5 s, stays in the
\* world through every step of every frame with now < kill_at and is removed
\* when the commands of the first frame with now >= kill_at are applied.
C3_Lifespan ==
  [][/\ \A i \in Projectiles(ents) :
          /\ (i \in DOMAIN ents') <=> ~(pc = "apply" /\ now >= ents[i].kill_at)
          /\ i \in DOMAIN ents' => ents'[i].kill_at = ents[i].kill_at
     /\ pc = "apply" =>
          \A j \in SpawnCommands :
             /\ commands[j].id \in DOMAIN ents'
             /\ ents'[commands[j].id].kill_at = now + LifespanTicks]_vars

C3_Witness ==
  /\ pc = "tick"
  /\ nextId > 3
  /\ Projectiles(ents) = {}

\* C4: the player's speed is at most 500 in every state.
C4_SpeedCap ==
  \A i \in Matching({"Velocity", "Shooter"}) :
     /\ ~ents[i].magnitude.nan
     /\ Length2(ents[i].magnitude) <= MaxSpeed * MaxSpeed

C4_Witness ==
  /\ pc = "velocity"
  /\ frame = 1
  /\ keys = {"W"}
  /\ AccelStep(dt) > MaxSpeed
  /\ \E i \in Matching({"Velocity", "Shooter"}) : ents[i].magnitude = V(0, MaxSpeed)

\* C5: a frame whose button events hold no press of the primary trigger
\* spawns nothing and leaves last_shot_at alone.
C5_OnlyLeftPressFires ==
  [][(pc = "fire" /\ \A j \in DOMAIN buttonEvents : buttonEvents[j] # LeftPressed)
       => /\ commands' = commands
          /\ \A i \in Shooters(ents) : ents'[i].last_shot_at = ents[i].last_shot_at]_vars

\* C6: no entity, in the world or requested, holds a non-finite position or
\* velocity, and every projectile moves at speed 2000 (to the grid).
C6_SpawnsFinite ==
  /\ \A i \in DOMAIN ents : ~ents[i].translation.nan /\ ~ents[i].magnitude.nan
  /\ \A j \in SpawnCommands :
        /\ ~commands[j].ent.translation.nan
        /\ ~commands[j].ent.magnitude.nan
        /\ Length2(commands[j].ent.magnitude) <= ProjectileSpeed * ProjectileSpeed
        /\ Length2(commands[j].ent.magnitude) > (ProjectileSpeed - 2) * (ProjectileSpeed - 2)

\* C7: pointer events whose view direction has zero length leave the
\* player's rotation as it was.
C7_ZeroViewDirKeepsRotation ==
  [][(/\ pc = "mouse"
      /\ cursorEvents # <<>>
      /\ \A i \in Shooters(ents), j \in DOMAIN cursorEvents :
            ViewDir(cursorEvents[j], ents[i]) = Zero)
       => \A i \in Shooters(ents) : ents'[i].rotation = ents[i].rotation]_vars

\* C8: velocity_system moves every entity with Transform and Velocity by
\* magnitude * dt on each axis, changes nothing when dt = 0, and never
\* changes a velocity or a rotation.
C8_Integration ==
  [][pc = "velocity" =>
       /\ DOMAIN ents' = DOMAIN ents
       /\ \A i \in DOMAIN ents :
            /\ ents'[i].magnitude = ents[i].magnitude
            /\ ents'[i].rotation = ents[i].rotation
            /\ IF Has(ents[i], {"Transform", "Velocity"}) /\ ~ents[i].magnitude.nan
                  /\ ~ents[i].translation.nan
               THEN /\ ~ents'[i].translation.nan
                    /\ ents'[i].translation.x - ents[i].translation.x = ents[i].magnitude.x * dt
                    /\ ents'[i].translation.y - ents[i].translation.y = ents[i].magnitude.y * dt
               ELSE ents'[i].translation = ents[i].translation
            /\ dt = 0 => ents'[i] = ents[i]]_vars

C8_Witness ==
  /\ pc = "friction"
  /\ dt > 0
  /\ \E i \in Shooters(ents) :
        /\ ents[i].magnitude.x # 0 /\ ents[i].magnitude.y # 0
        /\ ents[i].translation.x # 0 /\ ents[i].translation.y # 0

\* C9: a friction step never raises the speed of an entity with
\* no_friction = false, lowers it when it decays a velocity above the grid,
\* never takes a nonzero speed to zero and leaves a zero speed alone.
C9_FrictionMonotone ==
  [][pc = "friction" =>
       \A i \in Matching({"Velocity"}) :
          ~ents[i].no_friction =>
            /\ Length2(ents'[i].magnitude) <= Length2(ents[i].magnitude)
            /\ (now - ents[i].last_change > QuiescenceTicks /\ Length2(ents[i].magnitude) >= 4)
                 => Length2(ents'[i].magnitude) < Length2(ents[i].magnitude)
            /\ Length2(ents[i].magnitude) > 0 => Length2(ents'[i].magnitude) > 0
            /\ Length2(ents[i].magnitude) = 0 => ents'[i] = ents[i]]_vars

\* 100 -> 70 -> 49: two decays in a row
C9_Witness ==
  /\ pc = "mouse"
  /\ \E i \in Shooters(ents) :
        /\ ents[i].magnitude = V(0, 49)
        /\ ents[i].last_change = 1

\* C10: no step changes the velocity of an entity with no_friction = true
\* while it exists.
C10_ProjectileVelocityFixed ==
  [][\A i \in DOMAIN ents :
        (ents[i].no_friction /\ i \in DOMAIN ents')
          => /\ ents'[i].magnitude = ents[i].magnitude
             /\ ents'[i].no_friction]_vars

C10_Witness ==
  /\ pc = "mouse"
  /\ \E i \in Projectiles(ents) :
        /\ ents[i].no_friction
        /\ LengthPositive(ents[i].magnitude)
        /\ now - ents[i].last_change > QuiescenceTicks

DespawnCommands(cs) == {j \in DOMAIN cs : cs[j].op = "despawn"}

\* C11: in every state exactly one entity holds a Shooter, always the same
\* one; only entities holding a Lifespan are ever requested for despawn or
\* removed; a projectile is requested for despawn once, while it is in the
\* world, it is gone when the frame ends, so that no later frame visits it,
\* and its id is never given to another entity.
C11_Lifecycle ==
  [][ /\ Cardinality(Shooters(ents')) = 1
      /\ Shooters(ents') = Shooters(ents)
      /\ \A j \in DespawnCommands(commands') :
           /\ commands'[j].id \in Projectiles(ents')
           /\ \A k \in DespawnCommands(commands') :
                commands'[k].id = commands'[j].id => k = j
      /\ \A i \in DOMAIN ents \ DOMAIN ents' :
           /\ Has(ents[i], {"Lifespan"})
           /\ pc = "apply" /\ now >= ents[i].kill_at
      /\ pc' = "tick" => \A i \in Projectiles(ents') : ents'[i].kill_at > now'
      /\ \A i \in DOMAIN ents' \ DOMAIN ents :
           \E j \in SpawnCommands : commands[j].id = i
      /\ \A j \in DOMAIN commands' \ DOMAIN commands :
           commands'[j].op = "spawn" => commands'[j].id >= nextId
      /\ \A j \in DOMAIN commands' :
           commands'[j].op = "spawn" => commands'[j].id < nextId'
      /\ \A i \in DOMAIN ents' : i < nextId'
    ]_vars

\* The reaper has asked for a projectile's removal, next to the player.
C11_Witness ==
  /\ pc = "apply"
  /\ DespawnCommands(commands) # {}
  /\ Cardinality(Shooters(ents)) = 1
  /\ Cardinality(Projectiles(ents)) >= 1

\* C12 as claimed: the systems of a frame run in the order input, aim
\* (mouse), fire, movement (velocity), friction, reaper (kill).
C12_ClaimedOrder ==
  [][ /\ pc = "input" => pc' = "mouse"
      /\ pc = "mouse" => pc' = "fire"
      /\ pc = "fire" => pc' = "velocity"
      /\ pc = "velocity" => pc' = "friction"
      /\ pc = "friction" => pc' = "kill"
      /\ pc = "kill" => pc' = "apply"
    ]_vars

\* C12, amended: the systems of a frame run in the order input, movement
\* (velocity), friction, aim (mouse), fire, reaper (kill), and then the
\* commands are applied; fire runs after the movement, so that a spawn's
\* position is 50 units from the position the player has at the end of the
\* frame, that frame's movement included.
C12_CodeOrder ==
  [][ /\ pc = "tick" => pc' = "input"
      /\ pc = "input" => pc' = "velocity"
      /\ pc = "velocity" => pc' = "friction"
      /\ pc = "friction" => pc' = "mouse"
      /\ pc = "mouse" => pc' = "fire"
      /\ pc = "fire" => pc' = "kill"
      /\ pc = "kill" => pc' = "apply"
      /\ pc = "apply" => pc' = "tick"
      /\ pc = "input" => commands = <<>>
      /\ pc' = "apply" =>
           \A j \in DOMAIN commands' : \A i \in Shooters(ents') :
             commands'[j].op = "spawn" =>
               commands'[j].ent.translation =
                 VAdd(ents'[i].translation,
                      NormalizeTimes(ents'[i].shoot_direction, SpawnOffset * TicksPerSecond))
    ]_vars

\* The player moved and fired in one frame: the spawn is requested at a
\* position that is not 50 units from where the player was before the frame.
C12_Witness ==
  /\ pc = "apply"
  /\ dt > 0 /\ keys # {}
  /\ \E j \in SpawnCommands : \E i \in Shooters(ents) :
       /\ ~commands[j].ent.translation.nan
       /\ LengthPositive(ents[i].magnitude)
       /\ commands[j].ent.translation #
            VAdd(VSub(ents[i].translation, VScale(ents[i].magnitude, dt)),
                 NormalizeTimes(ents[i].shoot_direction, SpawnOffset * TicksPerSecond))

\* C13 as claimed: in a frame with any of W, A, S, D pressed the input
\* system sets last_change = now, also when the keys cancel or dt = 0; with
\* no key pressed last_change stays.
C13_AnyKeyResets ==
  [][pc = "input" =>
       \A i \in Shooters(ents) :
         ents'[i].last_change = IF keys # {} THEN now ELSE ents[i].last_change
    ]_vars

\* C13, amended: the input system sets last_change = now exactly in the
\* frames with dt > 0 in which the pressed keys do not cancel on both axes;
\* in every other frame (no key, A with D and W with S cancelling, dt = 0)
\* it leaves last_change and the velocity as they are.
C13_NetDirectionResets ==
  [][pc = "input" =>
       \A i \in Shooters(ents) :
         LET net == \/ ("D" \in keys) # ("A" \in keys)
                    \/ ("W" \in keys) # ("S" \in keys)
         IN IF net /\ dt > 0
            THEN ents'[i].last_change = now
            ELSE /\ ents'[i].last_change = ents[i].last_change
                 /\ ents'[i].magnitude = ents[i].magnitude
    ]_vars

\* After a frame that accelerated the player, a frame with A and D held has
\* run the input system and the timer still shows the earlier frame.
C13_Witness ==
  /\ pc = "velocity"
  /\ keys = {"A", "D"} /\ dt > 0
  /\ \E i \in Shooters(ents) :
       /\ ents[i].last_change > 0
       /\ ents[i].last_change < now

\* C14: the friction system multiplies an entity's velocity by 0.7 (to the
\* grid) exactly when no_friction is false, now - last_change > 0.1 s and the
\* velocity is not zero, and leaves it as it is otherwise, so never in a
\* frame in which the input system accelerated the entity nor within 0.1 s
\* of one; it never writes last_change.
C14_FrictionGuard ==
  [][pc = "friction" =>
       \A i \in DOMAIN ents :
         LET e == ents[i]
             f == ents'[i]
             due == /\ Has(e, {"Velocity"})
                    /\ ~e.no_friction
                    /\ 10 * (now - e.last_change) > TicksPerSecond
                    /\ ~e.magnitude.nan
                    /\ e.magnitude.x # 0 \/ e.magnitude.y # 0
         IN /\ IF due
               THEN /\ ~f.magnitude.nan
                    /\ Abs(10 * f.magnitude.x - 7 * e.magnitude.x) <= 5
                    /\ Abs(10 * f.magnitude.y - 7 * e.magnitude.y) <= 5
                    /\ f.magnitude # e.magnitude
               ELSE f.magnitude = e.magnitude
            /\ f.last_change = e.last_change
            /\ f.no_friction = e.no_friction
    ]_vars

\* The player, brought to 500 by W, has been decayed in two frames running,
\* to 350 and then to 245, without last_change moving.
C14_Witness ==
  /\ pc = "mouse"
  /\ \E i \in Shooters(ents) :
       /\ ents[i].magnitude = V(0, 245)
       /\ now - ents[i].last_change > 2 * QuiescenceTicks

\* v has the direction of d and a length in (len - 2, len]
Along(v, d, len) ==
  /\ ~v.nan
  /\ Abs(v.x * d.y - v.y * d.x) <= Abs(d.x) + Abs(d.y)
  /\ v.x * d.x + v.y * d.y > 0
  /\ Length2(v) <= len * len
  /\ Length2(v) > (len - 2) * (len - 2)

\* C15: a step of the fire system requests at most one spawn; a spawn at
\* time now sets the shooter's last_shot_at to now and requests one entity
\* with Transform, Velocity and Lifespan, rotation = shoot_angle, position
\* 50 units from the player's along shoot_direction, velocity 2000 units/s
\* along shoot_direction, no_friction set and kill_at = now + 0.5 s; the
\* step changes nothing else of the player and nothing of any other entity,
\* and the entity enters the world as requested when the commands are
\* applied.  (For a shoot_direction of zero length, position and velocity
\* are what normalize() returns for it: see C6.)
C15_SpawnEffect ==
  [][ /\ pc = "fire" =>
           /\ DOMAIN ents' = DOMAIN ents
           /\ Len(commands') <= Len(commands) + 1
           /\ \A i \in DOMAIN ents :
                IF Has(ents[i], {"Shooter"}) /\ Len(commands') > Len(commands)
                THEN ents'[i] = [ents[i] EXCEPT !.last_shot_at = now]
                ELSE ents'[i] = ents[i]
           /\ \A j \in DOMAIN commands' \ DOMAIN commands : \A i \in Shooters(ents) :
                LET c == commands'[j]
                    d == ents[i].shoot_direction
                IN /\ c.op = "spawn"
                   /\ c.id \notin DOMAIN ents
                   /\ c.ent.comps = {"Transform", "Velocity", "Lifespan"}
                   /\ c.ent.rotation = ents[i].shoot_angle
                   /\ c.ent.no_friction
                   /\ c.ent.kill_at = now + LifespanTicks
                   /\ IF LengthPositive(d)
                      THEN /\ Along(VSub(c.ent.translation, ents[i].translation), d,
                                    SpawnOffset * TicksPerSecond)
                           /\ Along(c.ent.magnitude, d, ProjectileSpeed)
                      ELSE c.ent.translation.nan /\ c.ent.magnitude.nan
      /\ pc = "apply" =>
           \A j \in SpawnCommands :
             /\ commands[j].id \in DOMAIN ents'
             /\ ents'[commands[j].id] = commands[j].ent
    ]_vars

\* With one projectile in flight, a second one has been requested along the
\* direction the player aims in.
C15_Witness ==
  /\ pc = "kill"
  /\ Projectiles(ents) # {}
  /\ \E j \in SpawnCommands : \E i \in Shooters(ents) :
       /\ ~commands[j].ent.magnitude.nan
       /\ ents[i].last_shot_at = now
       /\ LengthPositive(ents[i].shoot_direction)

\* C16: after a frame's pointer events the player's aim is that of the last
\* event alone: shoot_direction is its view direction, shoot_angle is minus
\* the angle between that direction and (1,0), and the rotation is a
\* quarter turn less, both being angles (not NaN), so that the two differ by
\* exactly pi/2.
C16_LastPointerWins ==
  [][(pc = "mouse" /\ cursorEvents # <<>>) =>
       \A i \in Shooters(ents) :
         LET view_dir_vec == ViewDir(cursorEvents[Len(cursorEvents)], ents[i])
         IN /\ ents'[i].shoot_direction = view_dir_vec
            /\ ents'[i].shoot_angle = NegAngle(AngleBetweenX(view_dir_vec))
            /\ ~ents'[i].shoot_angle.nan
            /\ ~ents'[i].rotation.nan
            /\ ents'[i].rotation = SubQuarterTurn(ents'[i].shoot_angle)
    ]_vars

TriggerCount(evs) == Cardinality({j \in DOMAIN evs : Triggers(evs[j])})

\* C17: each system handles exactly the events delivered in its frame, and
\* has read every buffered event when it is done: the fire system requests
\* no more spawns than the frame delivered trigger events, and none, without
\* touching any entity, in a frame that delivered no button event, whatever
\* events of the frame before (a press rejected by the cooldown among them)
\* are still in the buffer; the aim system changes nothing in a frame that
\* delivered no pointer event.
C17_EventsReadOnce ==
  [][ /\ pc = "fire" =>
           /\ Len(commands') - Len(commands) <= TriggerCount(buttonEvents)
           /\ buttonEvents = <<>> => ents' = ents /\ commands' = commands
           /\ nextId' - nextId = Len(commands') - Len(commands)
      /\ pc = "mouse" =>
           /\ cursorEvents = <<>> => ents' = ents
           /\ ents' = AimAll(ents, cursorEvents)
      /\ pc' \in {"fire", "kill", "apply", "tick"} =>
           mouseReader' = Len(cursorPrev') + Len(cursorEvents')
      /\ pc' \in {"kill", "apply", "tick"} =>
           fireReader' = Len(buttonPrev') + Len(buttonEvents')
      /\ pc' \in {"input", "velocity", "friction", "mouse"} =>
           mouseReader' = Len(cursorPrev')
      /\ pc' \in {"input", "velocity", "friction", "mouse", "fire"} =>
           fireReader' = Len(buttonPrev')
    ]_vars

\* The buffer still holds a left press of the frame before, which the
\* cooldown rejected; the cooldown has passed since, the fire system has
\* run in a frame without button events, and nothing was spawned.
C17_Witness ==
  /\ pc = "kill"
  /\ buttonEvents = <<>>
  /\ \E j \in DOMAIN buttonPrev : buttonPrev[j] = LeftPressed
  /\ commands = <<>>
  /\ nextId = 3
  /\ \A i \in Shooters(ents) : ents[i].last_shot_at = 0 /\ CanFire(ents[i], now)

\* C18: the rotation of an entity of the world changes only in a step of the
\* aim system, in a frame that delivered a pointer event, and only for the
\* player; a projectile enters the world with the rotation it was requested
\* with and keeps it until it is removed.
C18_RotationOnlyByAim ==
  [][ /\ \A i \in DOMAIN ents \cap DOMAIN ents' :
           ents'[i].rotation # ents[i].rotation =>
             /\ pc = "mouse"
             /\ cursorEvents # <<>>
             /\ Has(ents[i], {"Shooter"})
      /\ \A i \in DOMAIN ents' \ DOMAIN ents :
           \E j \in SpawnCommands :
             commands[j].id = i /\ ents'[i].rotation = commands[j].ent.rotation
      /\ \A j \in DOMAIN commands \cap DOMAIN commands' :
           commands'[j].ent.rotation = commands[j].ent.rotation
    ]_vars

\* The aim system has turned the player on a pointer event while a
\* projectile, spawned before at the angle of setup, is in flight.
C18_Witness ==
  /\ pc = "fire"
  /\ cursorEvents # <<>>
  /\ \E i \in Shooters(ents) : ~ents[i].rotation.nan /\ ents[i].rotation # AngleZero
  /\ \E i \in Projectiles(ents) : ents[i].rotation = AngleZero

\* The most projectiles that spawns more than 0.1 s apart, each living
\* 0.5 s, leave in the world together.
MaxLive == LifespanTicks \div CooldownTicks

\* C19: at the end of every frame, when its spawn and despawn requests have
\* been applied, at most 5 projectiles exist.
C19_AtMostFiveLive ==
  pc = "tick" => Cardinality(Projectiles(ents)) <= MaxLive

\* Five projectiles exist at the end of a frame.
C19_Witness ==
  /\ pc = "tick"
  /\ Cardinality(Projectiles(ents)) = MaxLive
  /\ MaxLive = 5

=============================================================================
